---- MODULE Spec2Model ----
(***************************************************************************)
(* Pricing and checkout engine of the supermarket manager.                 *)
(*                                                                         *)
(* Money is held as an integer number of mills (1/1000 of a currency       *)
(* unit), so that a base price with three decimals is representable and    *)
(* "rounded to 2 decimals" means "a multiple of 10 mills".  A discount     *)
(* rate is an integer number of percent (0.05 is 5, 1.50 is 150).  Python  *)
(* round() is round-half-to-even on the value it is given; the binary     *)
(* representation error of a float is not modelled.                        *)
(* A time of day is the number of minutes since midnight.                  *)
(***************************************************************************)
EXTENDS Integers, Sequences, FiniteSets, TLC

\* ------------------------------------------------------------------ bounds
MaxRules == 2
MaxAdds == 2
MaxStock == 3
MaxOrders == 2
MaxEngines == 2

\* ------------------------------------------------------- program constants
HappyHourStart == 1020
HappyHourEnd == 1080
HappyHourRate == 5
BulkThreshold == 3
BulkRate == 5

\* ------------------------------------------------------------- arithmetic
\* Faulty variant of RoundHalfEven: the fraction is dropped.
RoundTruncate(num, den) == num \div den

\* round(x) for x = num/den, den > 0: nearest integer, ties to even.
RoundHalfEven(num, den) ==
    LET f == num \div den
        r == num % den
    IN  IF 2 * r < den THEN f
        ELSE IF 2 * r > den THEN f + 1
        ELSE IF f % 2 = 0 THEN f ELSE f + 1

\* Faulty variant of round2: the price is returned as it is.
round2_missing(price) == price

\* round(price, 2) on a price in mills.
round2(price) == 10 * RoundHalfEven(price, 10)

IsRounded2(price) == price % 10 = 0

\* Faulty variant of discounted: the product is truncated to mills, never rounded to
\* 2 decimals.
discounted_unrounded(unit_price, rate) == (unit_price * (100 - rate)) \div 100

\* round(unit_price * (1.0 - rate), 2), rate in percent.
discounted(unit_price, rate) == 10 * RoundHalfEven(unit_price * (100 - rate), 1000)

\* dict.get(key, default) on a function used as a dict.
Get(d, key, default) == IF key \in DOMAIN d THEN d[key] ELSE default

\* A context dict is a record with the set of keys it holds: a key outside
\* `keys` is absent, whatever the record's field says.
context_get(context, key, default) ==
    IF key \in context.keys THEN context[key] ELSE default

\* ---------------------------------------------------------- discount rules
CategoryDiscountRule(category_discounts) ==
    [kind |-> "category", category_discounts |-> category_discounts]

TimeDiscountRule(start_time, end_time, rate) ==
    [kind |-> "time", start_time |-> start_time, end_time |-> end_time, rate |-> rate]

MembershipDiscountRule(tier_discounts) ==
    [kind |-> "membership", tier_discounts |-> tier_discounts]

BulkQuantityRule(threshold, rate) ==
    [kind |-> "bulk", threshold |-> threshold, rate |-> rate]

\* The condition under which each rule takes its discount branch.  clock is
\* the reading of datetime.now() that a time rule falls back on when the
\* context carries no "now".
category_matches(rule, product) ==
    Get(product, "category", "") \in DOMAIN rule.category_discounts

\* Faulty variant of in_window: the end of the window is left out.
in_window_half_open(rule, context, clock) ==
    LET now_t == context_get(context, "now", clock)
    IN  rule.start_time <= now_t /\ now_t < rule.end_time

in_window(rule, context, clock) ==
    LET now_t == context_get(context, "now", clock)
    IN  rule.start_time <= now_t /\ now_t <= rule.end_time

tier_matches(rule, context) ==
    context_get(context, "membership", "REGULAR") \in DOMAIN rule.tier_discounts

CategoryDiscountRule_apply(rule, product, unit_price) ==
    IF category_matches(rule, product)
    THEN discounted(unit_price, rule.category_discounts[Get(product, "category", "")])
    ELSE unit_price

TimeDiscountRule_apply(rule, unit_price, context, clock) ==
    IF in_window(rule, context, clock)
    THEN discounted(unit_price, rule.rate)
    ELSE unit_price

MembershipDiscountRule_apply(rule, unit_price, context) ==
    IF tier_matches(rule, context)
    THEN discounted(unit_price, rule.tier_discounts[context_get(context, "membership", "REGULAR")])
    ELSE unit_price

BulkQuantityRule_apply(rule, qty, unit_price) ==
    IF qty >= rule.threshold THEN discounted(unit_price, rule.rate) ELSE unit_price

\* Whether rule.apply takes its discount branch (and so rounds), or returns
\* unit_price as it received it.
takes_discount(rule, product, qty, context, clock) ==
    CASE rule.kind = "category" -> category_matches(rule, product)
      [] rule.kind = "time" -> in_window(rule, context, clock)
      [] rule.kind = "membership" -> tier_matches(rule, context)
      [] rule.kind = "bulk" -> qty >= rule.threshold

\* rule.apply(sku, product, qty, unit_price, context): dynamic dispatch.
apply(rule, sku, product, qty, unit_price, context, clock) ==
    CASE rule.kind = "category" -> CategoryDiscountRule_apply(rule, product, unit_price)
      [] rule.kind = "time" -> TimeDiscountRule_apply(rule, unit_price, context, clock)
      [] rule.kind = "membership" -> MembershipDiscountRule_apply(rule, unit_price, context)
      [] rule.kind = "bulk" -> BulkQuantityRule_apply(rule, qty, unit_price)

\* Faulty variant of clamp: a negative price is let through.
clamp_missing(price) == price

\* The "safety clamp" of price_item.
clamp(price) == IF price < 0 THEN 0 ELSE price

\* One iteration of the loop of price_item.
rule_step(rule, sku, product, qty, price, context, clock) ==
    clamp(apply(rule, sku, product, qty, price, context, clock))

\* Faulty variant of price_loop: the rules are applied last-registered first.
RECURSIVE price_loop_reversed(_, _, _, _, _, _, _, _)
price_loop_reversed(rules, n, sku, product, qty, base_unit_price, context, clock) ==
    IF n = 0 THEN base_unit_price
    ELSE rule_step(rules[Len(rules) - n + 1], sku, product, qty,
                   price_loop_reversed(rules, n - 1, sku, product, qty, base_unit_price,
                                       context, clock),
                   context, clock)

\* The loop of price_item over rules[1..n], starting from base_unit_price.
RECURSIVE price_loop(_, _, _, _, _, _, _, _)
price_loop(rules, n, sku, product, qty, base_unit_price, context, clock) ==
    IF n = 0 THEN base_unit_price
    ELSE rule_step(rules[n], sku, product, qty,
                   price_loop(rules, n - 1, sku, product, qty, base_unit_price, context, clock),
                   context, clock)

price_item(rules, sku, product, qty, base_unit_price, context, clock) ==
    round2(price_loop(rules, Len(rules), sku, product, qty, base_unit_price, context, clock))

\* PricingService.add_rule on the rule list.
PricingService_add_rule(rules, rule) == Append(rules, rule)

\* The engine the application constructs at start.
MembershipTable == [REGULAR |-> 0, SILVER |-> 2, GOLD |-> 5, VIP |-> 8]

DefaultRules ==
    << CategoryDiscountRule([Dairy |-> 10, Bakery |-> 5]),
       TimeDiscountRule(HappyHourStart, HappyHourEnd, HappyHourRate),
       MembershipDiscountRule(MembershipTable),
       BulkQuantityRule(BulkThreshold, BulkRate) >>

\* -------------------------------------------------------------- repository
\* A JSON file of data/storage: missing, holding a parsable value (with the
\* shape of that value: "list", "dict", or "scalar" for a string, a number,
\* true, false or null), holding text json.loads rejects, holding nothing
\* but white space, or one that open or read fails on.
MissingFile == [state |-> "missing", shape |-> "list", data |-> << >>]

EmptyFile == [state |-> "empty", shape |-> "list", data |-> << >>]

UnreadableFile == [state |-> "unreadable", shape |-> "list", data |-> << >>]

CorruptFile == [state |-> "corrupt", shape |-> "list", data |-> << >>]

ValidFile(shape, data) == [state |-> "valid", shape |-> shape, data |-> data]

\* _read_json: the parsed value, or [] when the file is missing or unreadable.
read_json(file) ==
    IF file.state = "valid"
    THEN [shape |-> file.shape, data |-> file.data]
    ELSE [shape |-> "list", data |-> << >>]

\* The exception raised inside the try block of _read_json, "none" for none.
raised_in_try(file) ==
    CASE file.state = "corrupt" -> "JSONDecodeError"
      [] file.state = "unreadable" -> "OSError"
      [] OTHER -> "none"

\* The classes "except Exception" catches, of those the try block raises.
ExceptionSubclasses == {"JSONDecodeError", "OSError"}

\* The exception _read_json raises to its caller, "none" for none.
read_json_raises(file) ==
    IF file.state = "missing" THEN "none"
    ELSE IF raised_in_try(file) \in ExceptionSubclasses THEN "none"
    ELSE raised_in_try(file)

\* Faulty variant of as_dict: what _read_json returned is returned as is.
as_dict_unchecked(data) == data

\* "if isinstance(data, dict): return data" and the "return {}" after it.
as_dict(data) == IF data.shape = "dict" THEN data ELSE [shape |-> "dict", data |-> << >>]

\* "if isinstance(data, list): return data" and the "return []" after it.
as_list(data) == IF data.shape = "list" THEN data ELSE [shape |-> "list", data |-> << >>]

\* _write_json.  open(path, "w") truncates the file before json.dump writes
\* it, and either may raise: "ok" leaves the new value, "open_error" raises
\* with the file as it was, "write_error" raises with a truncated file.
IoOutcomes == {"ok", "open_error", "write_error"}

write_json(file, shape, data, io) ==
    CASE io = "ok" -> ValidFile(shape, data)
      [] io = "open_error" -> file
      [] io = "write_error" -> CorruptFile

get_products(file) == as_list(read_json(file)).data

get_inventory(file) == as_dict(read_json(file)).data

get_orders(file) == as_list(read_json(file)).data

\* products_map = {p["sku"]: p for p in products}: a later entry wins.
products_map_of(products) ==
    [sku \in {products[i].sku : i \in 1..Len(products)} |->
        products[CHOOSE i \in 1..Len(products) :
                    /\ products[i].sku = sku
                    /\ \A j \in (i + 1)..Len(products) : products[j].sku # sku]]

\* d[key] = value on a dict.
Put(d, key, value) ==
    [k \in DOMAIN d \cup {key} |-> IF k = key THEN value ELSE d[k]]

\* -------------------------------------------------------------- promotions
\* A string of a time of day is held as the sequence of its characters.
DigitChars == {"0", "1", "2", "3", "4", "5", "6", "7", "8", "9"}

DigitValue(c) ==
    CASE c = "0" -> 0 [] c = "1" -> 1 [] c = "2" -> 2 [] c = "3" -> 3 [] c = "4" -> 4
      [] c = "5" -> 5 [] c = "6" -> 6 [] c = "7" -> 7 [] c = "8" -> 8 [] c = "9" -> 9

\* int(chars): the error it raises ("ok" for none) and the value.
RECURSIVE int_value(_, _)
int_value(chars, n) ==
    IF n = 0 THEN 0 ELSE 10 * int_value(chars, n - 1) + DigitValue(chars[n])

int(chars) ==
    IF chars = << >> \/ \E i \in 1..Len(chars) : chars[i] \notin DigitChars
    THEN [error |-> "ValueError", value |-> 0]
    ELSE [error |-> "ok", value |-> int_value(chars, Len(chars))]

\* parse_hh: hour, minute = str.split(":"); time(int(hour), int(minute)),
\* as minutes since midnight.
parse_hh(hh_time_str) ==
    LET colons == {i \in 1..Len(hh_time_str) : hh_time_str[i] = ":"}
    IN  IF Cardinality(colons) # 1 THEN [error |-> "ValueError", value |-> 0]
        ELSE LET c == CHOOSE i \in colons : TRUE
                 hour == int(SubSeq(hh_time_str, 1, c - 1))
                 minute == int(SubSeq(hh_time_str, c + 1, Len(hh_time_str)))
             IN  IF hour.error # "ok" \/ minute.error # "ok"
                    \/ hour.value > 23 \/ minute.value > 59
                 THEN [error |-> "ValueError", value |-> 0]
                 ELSE [error |-> "ok", value |-> 60 * hour.value + minute.value]

\* The values promotions.json may hold under its three keys.  json is the
\* JSON type of the value; keys are the keys a dict has, and a field whose
\* key is not in keys is absent.
PromotionKeys == {"category_discounts", "happy_hour", "bulk"}

CategoryDiscounts(map) == [json |-> "dict", map |-> map]

HappyHour(keys, start, end, rate) ==
    [json |-> "dict", keys |-> keys, start |-> start, end |-> end, rate |-> rate]

Bulk(keys, threshold, rate) ==
    [json |-> "dict", keys |-> keys, threshold |-> threshold, rate |-> rate]

\* The defaults of get_promotions.
DefaultStart == << "1", "7", ":", "0", "0" >>

DefaultEnd == << "1", "8", ":", "0", "0" >>

DefaultHappyHourRate == 5

DefaultBulkThreshold == 3

DefaultBulkRate == 5

DefaultCategoryDiscounts == CategoryDiscounts(<< >>)

DefaultHappyHour ==
    HappyHour({"start", "end", "rate"}, DefaultStart, DefaultEnd, DefaultHappyHourRate)

DefaultBulk == Bulk({"threshold", "rate"}, DefaultBulkThreshold, DefaultBulkRate)

\* The dict get_promotions reads when the file holds no dict: {}.
EmptyPromotions ==
    [keys |-> {}, category_discounts |-> DefaultCategoryDiscounts,
     happy_hour |-> DefaultHappyHour, bulk |-> DefaultBulk]

\* get_promotions: data.get(key, default) for each of the three keys.
get_promotions(file) ==
    LET read == read_json(file)
        data == IF read.shape = "dict" THEN read.data ELSE EmptyPromotions
    IN  [keys |-> PromotionKeys,
         category_discounts |->
             IF "category_discounts" \in data.keys THEN data.category_discounts
             ELSE DefaultCategoryDiscounts,
         happy_hour |->
             IF "happy_hour" \in data.keys THEN data.happy_hour ELSE DefaultHappyHour,
         bulk |-> IF "bulk" \in data.keys THEN data.bulk ELSE DefaultBulk]

\* _load_pricing_from_promotions up to the swap: the error it raises ("ok"
\* for none) and the rules of the PricingService it builds.
build_pricing(promo) ==
    LET hh_cfg == promo.happy_hour
        bulk_cfg == promo.bulk
        start_t == parse_hh(hh_cfg.start)
        end_t == parse_hh(hh_cfg.end)
    IN  IF hh_cfg.json # "dict" THEN [error |-> "TypeError", rules |-> << >>]
        ELSE IF "start" \notin hh_cfg.keys THEN [error |-> "KeyError", rules |-> << >>]
        ELSE IF start_t.error # "ok" THEN [error |-> start_t.error, rules |-> << >>]
        ELSE IF "end" \notin hh_cfg.keys THEN [error |-> "KeyError", rules |-> << >>]
        ELSE IF end_t.error # "ok" THEN [error |-> end_t.error, rules |-> << >>]
        ELSE IF "rate" \notin hh_cfg.keys THEN [error |-> "KeyError", rules |-> << >>]
        ELSE IF bulk_cfg.json # "dict" THEN [error |-> "TypeError", rules |-> << >>]
        ELSE IF {"threshold", "rate"} \ bulk_cfg.keys # {}
        THEN [error |-> "KeyError", rules |-> << >>]
        ELSE [error |-> "ok",
              rules |-> << CategoryDiscountRule(promo.category_discounts.map),
                           TimeDiscountRule(start_t.value, end_t.value, hh_cfg.rate),
                           MembershipDiscountRule(MembershipTable),
                           BulkQuantityRule(bulk_cfg.threshold, bulk_cfg.rate) >>]

\* Faulty variant of swap_pricing: the rules of the engine in use are
\* replaced in place.
swap_pricing_in_place(heap, app, rules) ==
    [engines |-> [heap EXCEPT ![app] = rules], app_pricing |-> app, svc_pricing |-> app]

\* The swap of _load_pricing_from_promotions: the new PricingService is a new
\* object, self.pricing refers to it, and a new CheckoutService is built on it.
swap_pricing(heap, app, rules) ==
    [engines |-> Append(heap, rules), app_pricing |-> Len(heap) + 1,
     svc_pricing |-> Len(heap) + 1]

\* The text of an entry field that float() or int() is called on.
NumberText(value) == [numeric |-> TRUE, value |-> value]

NotANumber == [numeric |-> FALSE, value |-> 0]

\* -------------------------------------------------------------- membership
AllTiers == {"REGULAR", "SILVER", "GOLD", "VIP"}

\* Faulty variant of compute_tier: the lower bound of a tier is left out of it.
compute_tier_open(lifetime_spend) ==
    IF lifetime_spend > 1000000 THEN "VIP"
    ELSE IF lifetime_spend > 500000 THEN "GOLD"
    ELSE IF lifetime_spend > 100000 THEN "SILVER"
    ELSE "REGULAR"

\* compute_tier, on a spend in mills.
compute_tier(lifetime_spend) ==
    IF lifetime_spend >= 1000000 THEN "VIP"
    ELSE IF lifetime_spend >= 500000 THEN "GOLD"
    ELSE IF lifetime_spend >= 100000 THEN "SILVER"
    ELSE "REGULAR"

get_customers(file) == as_list(read_json(file)).data

\* find_customer: the index of the first record of that id, 0 for None.
find_customer(customers, customer_id) ==
    IF \E i \in 1..Len(customers) : customers[i].customer_id = customer_id
    THEN CHOOSE i \in 1..Len(customers) :
             /\ customers[i].customer_id = customer_id
             /\ \A j \in 1..(i - 1) : customers[j].customer_id # customer_id
    ELSE 0

\* The dict gui_add_customer and gui_checkout build for a new customer.
NewCustomer(customer_id, name) ==
    [customer_id |-> customer_id, name |-> name, lifetime_spend |-> 0, tier |-> "REGULAR"]

\* Faulty variant of resolve_tier: the stored tier is trusted.
resolve_tier_stored(customer) ==
    [spend |-> Get(customer, "lifetime_spend", 0), tier |-> Get(customer, "tier", "REGULAR")]

\* gui_checkout before the call of checkout: current_spend and current_tier.
resolve_tier(customer) ==
    LET current_spend == Get(customer, "lifetime_spend", 0)
    IN  [spend |-> current_spend, tier |-> compute_tier(current_spend)]

\* Faulty variant of after_checkout: the tier resolved before the checkout
\* is kept.
after_checkout_stale_tier(customer, current_spend, current_tier, total) ==
    [customer EXCEPT !.lifetime_spend = round2(current_spend + total),
                     !.tier = current_tier]

\* gui_checkout after the call of checkout: the spend grows by the order
\* total and the tier is computed again from it.
after_checkout(customer, current_spend, current_tier, total) ==
    LET new_spend == round2(current_spend + total)
    IN  [customer EXCEPT !.lifetime_spend = new_spend, !.tier = compute_tier(new_spend)]

\* Faulty variant of save_after_checkout: the list is saved whether or not
\* checkout returned.
save_always(file, customers, outcome, io) == write_json(file, "list", customers, io)

\* What gui_checkout leaves in customers.json once checkout has ended:
\* save_customers is reached only when checkout has returned an order.
save_after_checkout(file, customers, outcome, io) ==
    IF outcome = "ok" THEN write_json(file, "list", customers, io) ELSE file

\* -------------------------------------------------------------------- cart
CartItem(sku, qty) == [sku |-> sku, qty |-> qty]

\* Faulty variant of Cart_add: the quantity is not looked at.
Cart_add_unchecked(items, sku, qty) ==
    [error |-> "ok", items |-> Append(items, CartItem(sku, qty))]

\* Cart.add: the error it raises ("ok" for none) and the items after it.
Cart_add(items, sku, qty) ==
    IF qty <= 0 THEN [error |-> "InvalidQuantity", items |-> items]
    ELSE [error |-> "ok", items |-> Append(items, CartItem(sku, qty))]

\* Cart.clear.
Cart_clear(items) == << >>

\* Faulty variant of cart_after_commit: the cart is cleared before the two
\* saves are called.
cart_cleared_before_commit(items, io) == Cart_clear(items)

\* The cart a checkout that reached the commit leaves: cart.clear() comes
\* after save_orders and save_inventory, and runs if both have returned.
\* io is how the two saves end.
cart_after_commit(items, io) ==
    IF io[1] = "ok" /\ io[2] = "ok" THEN Cart_clear(items) ELSE items

\* ---------------------------------------------------------------- checkout
\* The validation loop of checkout from line i on: the first error, or "ok".
RECURSIVE validate(_, _, _, _)
validate(items, i, products_map, inventory) ==
    IF i > Len(items) THEN "ok"
    ELSE IF items[i].sku \notin DOMAIN products_map THEN "SkuNotFound"
    ELSE IF Get(inventory, items[i].sku, 0) < items[i].qty THEN "InsufficientStock"
    ELSE validate(items, i + 1, products_map, inventory)

\* Faulty variant of deduct: each line is taken off the quantity the SKU had
\* before the loop.
RECURSIVE deduct_from_start(_, _, _)
deduct_from_start(inventory, items, n) ==
    IF n = 0 THEN inventory
    ELSE Put(deduct_from_start(inventory, items, n - 1), items[n].sku,
             inventory[items[n].sku] - items[n].qty)

\* The deduction loop of checkout over items[1..n].
RECURSIVE deduct(_, _, _)
deduct(inventory, items, n) ==
    IF n = 0 THEN inventory
    ELSE LET inv == deduct(inventory, items, n - 1)
         IN  Put(inv, items[n].sku, inv[items[n].sku] - items[n].qty)

\* Faulty variant of checkout_stock: one loop validates a line and deducts it before
\* it looks at the next line.
RECURSIVE checkout_stock_interleaved_from(_, _, _, _)
checkout_stock_interleaved_from(items, i, products_map, inventory) ==
    IF i > Len(items) THEN [error |-> "ok", inventory |-> inventory]
    ELSE IF items[i].sku \notin DOMAIN products_map
    THEN [error |-> "SkuNotFound", inventory |-> inventory]
    ELSE IF Get(inventory, items[i].sku, 0) < items[i].qty
    THEN [error |-> "InsufficientStock", inventory |-> inventory]
    ELSE checkout_stock_interleaved_from(items, i + 1, products_map,
             Put(inventory, items[i].sku, inventory[items[i].sku] - items[i].qty))

checkout_stock_interleaved(items, products_map, inventory) ==
    checkout_stock_interleaved_from(items, 1, products_map, inventory)

\* What checkout does to the inventory dict it is given: validate every
\* line, and only if none fails deduct every line.
checkout_stock(items, products_map, inventory) ==
    LET error == validate(items, 1, products_map, inventory)
    IN  [error |-> error,
         inventory |-> IF error = "ok" THEN deduct(inventory, items, Len(items))
                       ELSE inventory]

OrderItem(sku, qty, unit_price, subtotal) ==
    [sku |-> sku, qty |-> qty, unit_price |-> unit_price, subtotal |-> subtotal]

\* Faulty variant of order_items: the quantity a line is priced with is the summed
\* quantity of all cart lines of its SKU.
RECURSIVE sku_qty(_, _, _)
sku_qty(items, n, sku) ==
    IF n = 0 THEN 0
    ELSE sku_qty(items, n - 1, sku) + (IF items[n].sku = sku THEN items[n].qty ELSE 0)

order_items_summed_qty(items, products_map, rules, membership_tier, clock) ==
    [i \in 1..Len(items) |->
        LET it == items[i]
            product == products_map[it.sku]
            final_unit_price ==
                price_item(rules, it.sku, product, sku_qty(items, Len(items), it.sku),
                           product.price,
                           [keys |-> {"membership"}, membership |-> membership_tier, now |-> 0],
                           clock)
        IN  OrderItem(it.sku, it.qty, final_unit_price, round2(final_unit_price * it.qty))]

\* Faulty variant of order_items: the subtotal is taken on the catalog price,
\* not on the price price_item returned.
order_items_base_subtotal(items, products_map, rules, membership_tier, clock) ==
    [i \in 1..Len(items) |->
        LET it == items[i]
            product == products_map[it.sku]
            final_unit_price ==
                price_item(rules, it.sku, product, it.qty, product.price,
                           [keys |-> {"membership"}, membership |-> membership_tier, now |-> 0],
                           clock)
        IN  OrderItem(it.sku, it.qty, final_unit_price, round2(product.price * it.qty))]

\* The pricing loop of checkout: one OrderItem per cart line, in cart order.
order_items(items, products_map, rules, membership_tier, clock) ==
    [i \in 1..Len(items) |->
        LET it == items[i]
            product == products_map[it.sku]
            final_unit_price ==
                price_item(rules, it.sku, product, it.qty, product.price,
                           [keys |-> {"membership"}, membership |-> membership_tier, now |-> 0],
                           clock)
        IN  OrderItem(it.sku, it.qty, final_unit_price, round2(final_unit_price * it.qty))]

RECURSIVE sum_subtotals(_, _)
sum_subtotals(order_items_, n) ==
    IF n = 0 THEN 0 ELSE sum_subtotals(order_items_, n - 1) + order_items_[n].subtotal

\* total = round(total, 2) after the loop.
order_total(order_items_) == round2(sum_subtotals(order_items_, Len(order_items_)))

\* format(n, "06d"): decimal digits, zero-padded on the left to 6 at least.
Digits == << "0", "1", "2", "3", "4", "5", "6", "7", "8", "9" >>

RECURSIVE decimal(_)
decimal(n) == IF n < 10 THEN Digits[n + 1] ELSE decimal(n \div 10) \o Digits[(n % 10) + 1]

RECURSIVE zero_pad(_, _)
zero_pad(str, width) == IF Len(str) >= width THEN str ELSE zero_pad("0" \o str, width)

\* order_id = f"ORD-{len(orders)+1:06d}"
order_id_for(orders) == "ORD-" \o zero_pad(decimal(Len(orders) + 1), 6)

Order(order_id, created_at, items, total) ==
    [order_id |-> order_id, created_at |-> created_at, items |-> items, total |-> total]

\* ------------------------------------------------------------------- state
VARIABLES
    pricing,      \* PricingService.rules of the live engine
    pi_pc,        \* price_item under test: "idle", "loop" or "done"
    pi_args,      \* its arguments, and the clock reading of this call
    pi_idx,       \* the index of the rule the loop applies next
    pi_price,     \* its local variable price
    pi_inputs,    \* history: the unit_price each rule.apply received
    pi_raw,       \* history: what each rule.apply returned
    pi_outputs,   \* history: price at the end of each loop iteration
    pi_applied,   \* history: whether each rule took its discount branch
    pi_result,    \* the value price_item returned
    cart,             \* Cart.items of the session's cart
    products_file,    \* data/storage/products.json
    inventory_file,   \* data/storage/inventory.json
    orders_file,      \* data/storage/orders.json
    adds,             \* the number of lines Cart.add has appended so far
    last,             \* the last operation and how it ended
    snapshot,         \* the inventory dict given to the last checkout, after it
    returned,         \* the Order the last checkout returned, if it returned
    issued,           \* history: the order_id of every order save_orders has written,
                      \* and whether the checkout that wrote it returned
    customers_file,   \* data/storage/customers.json
    session,          \* the last gui_checkout: its customer, and the spend and the
                      \* tier it resolved for the call of checkout
    promotions_file,  \* data/storage/promotions.json
    engines,          \* every PricingService the application has referred to,
                      \* as its rule list; an object is known by its index
    app_pricing,      \* self.pricing: the index of an engine
    svc_pricing,      \* self.checkout_service.pricing_service: the index of an engine
    promo_read,       \* get_promotions under test: what its last call returned
    ct,               \* compute_tier under test: its last call
    rd,               \* a get_* of the repository under test: its last call
    tr,               \* TimeDiscountRule.apply under test: its last call
    tills,            \* two callers of checkout on the one repository: where each
                      \* is in its call, and the local variables of the call
    serialized        \* whether the callers run checkout as a critical section

pricing_vars == << pricing, pi_pc, pi_args, pi_idx, pi_price, pi_inputs, pi_raw,
                   pi_outputs, pi_applied, pi_result >>

store_vars == << cart, products_file, inventory_file, orders_file, adds, last,
                 snapshot, returned, issued >>

member_vars == << customers_file, session >>

promo_vars == << promotions_file, engines, app_pricing, svc_pricing, promo_read >>

tier_vars == << ct >>

unit_vars == << rd, tr >>

till_vars == << tills, serialized >>

vars == << pricing_vars, store_vars, member_vars, promo_vars, tier_vars, unit_vars,
           till_vars >>

\* -------------------------------------------------------- the application
\* The catalog: two products on sale.  "Z" is a SKU no product has.
Catalog ==
    << [sku |-> "A", name |-> "Milk", category |-> "Dairy", price |-> 10000, active |-> TRUE],
       [sku |-> "B", name |-> "Soap", category |-> "Household", price |-> 1999, active |-> TRUE] >>

\* The arguments Cart.add is called with: lines of the two products, a line
\* of the unknown SKU, and quantities Cart.add refuses.
CartInputs ==
    { CartItem("A", 2), CartItem("A", 3), CartItem("B", 2), CartItem("Z", 2),
      CartItem("A", 0), CartItem("B", 0 - 1) }

\* What the operator types into the stock form.
StockSkus == {"A"}

StockDeltas == {0 - 1, 1}

\* The tier and the time of day of the checkouts of the session (what the
\* rules make of other tiers and times is explored on the engine alone).
Tiers == {"VIP"}

Clocks == {HappyHourStart}

\* The stock the session starts with.
InitialInventory == [A |-> 0, B |-> 2]

NoOrder == [order_id |-> "", created_at |-> 0, items |-> << >>, total |-> 0]

InitStore ==
    /\ cart = << >>
    /\ products_file = ValidFile("list", Catalog)
    /\ inventory_file = ValidFile("dict", InitialInventory)
    /\ orders_file = MissingFile
    /\ adds = 0
    /\ last = [op |-> "none", outcome |-> "ok"]
    /\ snapshot = << >>
    /\ returned = NoOrder
    /\ issued = << >>

NoSession == [customer_id |-> "", current_spend |-> 0, current_tier |-> ""]

InitCustomers ==
    /\ customers_file = MissingFile
    /\ session = NoSession

NotRead == [called |-> FALSE, promo |-> EmptyPromotions]

\* promotions.json is not there; the one engine is the engine __init__
\* builds, which self.pricing and the checkout service both hold.
InitPromotions ==
    /\ promotions_file = MissingFile
    /\ engines = << DefaultRules >>
    /\ app_pricing = 1
    /\ svc_pricing = 1
    /\ promo_read = NotRead

NoCall == [called |-> FALSE, lifetime_spend |-> 0, tier |-> ""]

InitTier == ct = NoCall

\* No getter of the repository and no TimeDiscountRule.apply has been called.
NoRead == [called |-> FALSE, getter |-> "", raised |-> "none", shape |-> "list",
           data |-> << >>]

NoApply == [called |-> FALSE, start_time |-> 0, end_time |-> 0, now |-> 0,
            in_context |-> FALSE, unit_price |-> 0, result |-> 0]

InitUnits == rd = NoRead /\ tr = NoApply

\* The two callers of checkout.
Tills == {1, 2}

\* A caller that is not in a call of checkout.
IdleTill == [pc |-> "idle", cart |-> << >>, inventory |-> << >>, orders |-> << >>,
             order |-> NoOrder, early |-> FALSE, wrote |-> FALSE]

InitTills == tills = [t \in Tills |-> IdleTill] /\ serialized = TRUE

\* No call of price_item is in progress.
NoArgs == [sku |-> "", product |-> [sku |-> ""], qty |-> 0, base_unit_price |-> 0,
           context |-> [keys |-> {}, membership |-> "", now |-> 0], clock |-> 0]

InitEngine ==
    /\ pricing = DefaultRules
    /\ pi_pc = "idle"
    /\ pi_args = NoArgs
    /\ pi_idx = 0
    /\ pi_price = 0
    /\ pi_inputs = << >>
    /\ pi_raw = << >>
    /\ pi_outputs = << >>
    /\ pi_applied = << >>
    /\ pi_result = 0

Init == InitEngine /\ InitStore /\ InitCustomers /\ InitPromotions /\ InitTier
    /\ InitUnits /\ InitTills

\* self.cart.add(sku, qty), as gui_add_to_cart or any other caller calls it.
add_to_cart ==
    /\ \E input \in CartInputs :
          LET res == Cart_add(cart, input.sku, input.qty)
          IN  /\ res.error = "ok" => adds < MaxAdds
              /\ cart' = res.items
              /\ adds' = IF res.error = "ok" THEN adds + 1 ELSE adds
              /\ last' = [op |-> "Cart_add", outcome |-> res.error]
    /\ snapshot' = << >>
    /\ returned' = NoOrder
    /\ UNCHANGED << pricing_vars, products_file, inventory_file, orders_file, issued >>
    /\ UNCHANGED << member_vars, promo_vars, tier_vars, unit_vars, till_vars >>

\* gui_update_inventory.  io is how save_inventory ends.
gui_update_inventory ==
    /\ \E sku \in StockSkus, delta \in StockDeltas, io \in IoOutcomes :
          LET inventory == get_inventory(inventory_file)
              new_qty == Get(inventory, sku, 0) + delta
          IN  IF new_qty < 0
              THEN /\ last' = [op |-> "gui_update_inventory", outcome |-> "rejected"]
                   /\ UNCHANGED inventory_file
              ELSE /\ new_qty <= MaxStock
                   /\ inventory_file' =
                          write_json(inventory_file, "dict", Put(inventory, sku, new_qty), io)
                   /\ last' = [op |-> "gui_update_inventory",
                               outcome |-> IF io = "ok" THEN "ok" ELSE "save_inventory failed"]
    /\ snapshot' = << >>
    /\ returned' = NoOrder
    /\ UNCHANGED << pricing_vars, cart, products_file, orders_file, adds,
                    issued >>
    /\ UNCHANGED << member_vars, promo_vars, tier_vars, unit_vars, till_vars >>

\* How the two writes of a checkout end: save_inventory is reached only when
\* save_orders has returned.
CommitOutcomes ==
    { << "ok", "ok" >>, << "ok", "open_error" >>, << "ok", "write_error" >>,
      << "open_error", "ok" >>, << "write_error", "ok" >> }

\* Faulty variant of commit_orders: the history is read again when it is
\* written.
commit_orders_reread(file, orders, order, io) ==
    write_json(file, "list", Append(get_orders(file), order), io)

\* orders.append({...}) and save_orders(orders): the list get_orders returned
\* to this call, with the new order, replaces the file.
commit_orders(file, orders, order, io) == write_json(file, "list", Append(orders, order), io)

\* CheckoutService.checkout(cart, products_map, inventory, membership_tier),
\* called as gui_checkout calls it: with a cart that is not empty, and with
\* the products_map and the inventory the repository holds.  clock is the
\* time of day datetime.now() gives the time rule.  created_at, the reading
\* of datetime.now() for the order, is held as its rank among the timestamps
\* of the orders written so far: timestamps only grow, and no two orders get
\* the same one.  issued[k] is the order_id of the order whose created_at
\* is k.  io is how save_orders and save_inventory end.
checkout_call(membership_tier, clock, io) ==
         LET products_map == products_map_of(get_products(products_file))
             inventory == get_inventory(inventory_file)
             stock == checkout_stock(cart, products_map, inventory)
             orders == get_orders(orders_file)
             items == order_items(cart, products_map, pricing, membership_tier, clock)
             order == Order(order_id_for(orders), Len(issued) + 1, items, order_total(items))
         IN  IF stock.error # "ok"
             THEN \* raise ValueError out of the validation loop
                  /\ last' = [op |-> "checkout", outcome |-> stock.error]
                  /\ snapshot' = stock.inventory
                  /\ returned' = NoOrder
                  /\ UNCHANGED << cart, inventory_file, orders_file, issued >>
             ELSE /\ Len(issued) < MaxOrders
                  /\ snapshot' = stock.inventory
                  /\ orders_file' = commit_orders(orders_file, orders, order, io[1])
                  /\ issued' =
                         IF io[1] = "ok"
                         THEN Append(issued, [order_id |-> order.order_id,
                                              completed |-> io[2] = "ok"])
                         ELSE issued
                  /\ cart' = cart_after_commit(cart, io)
                  /\ IF io[1] # "ok"
                     THEN \* save_orders raises
                          /\ last' = [op |-> "checkout", outcome |-> "save_orders failed"]
                          /\ returned' = NoOrder
                          /\ UNCHANGED inventory_file
                     ELSE /\ inventory_file' =
                                 write_json(inventory_file, "dict", stock.inventory, io[2])
                          /\ IF io[2] # "ok"
                             THEN \* save_inventory raises
                                  /\ last' = [op |-> "checkout",
                                              outcome |-> "save_inventory failed"]
                                  /\ returned' = NoOrder
                             ELSE /\ last' = [op |-> "checkout", outcome |-> "ok"]
                                  /\ returned' = order

\* checkout called with a cart that is not empty and a tier of Tiers.
checkout ==
    /\ cart # << >>
    /\ \E membership_tier \in Tiers, clock \in Clocks, io \in CommitOutcomes :
          checkout_call(membership_tier, clock, io)
    /\ UNCHANGED << pricing_vars, products_file, adds >>
    /\ UNCHANGED << member_vars, promo_vars, tier_vars, unit_vars, till_vars >>

Next == add_to_cart \/ gui_update_inventory \/ checkout

Spec == Init /\ [][Next]_vars

\* ------------------------------------------------------ claims on checkout
ValidationErrors == {"SkuNotFound", "InsufficientStock"}

\* The arguments gui_checkout passes in the current state.
CurrentProductsMap == products_map_of(get_products(products_file))

CurrentInventory == get_inventory(inventory_file)

\* Some cart line names a SKU the catalog lacks, or asks for more than the
\* stock of its SKU.
HasInvalidLine ==
    \E i \in 1..Len(cart) :
        \/ cart[i].sku \notin DOMAIN CurrentProductsMap
        \/ Get(CurrentInventory, cart[i].sku, 0) < cart[i].qty

\* C1: when some cart line fails validation, checkout fails with the
\* validation error, and the inventory dict passed in, the persisted
\* inventory, the persisted orders and the cart are as before the call.
C1_ValidationFailureChangesNothing ==
    [][last'.op = "checkout" =>
         /\ HasInvalidLine <=> last'.outcome \in ValidationErrors
         /\ last'.outcome \in ValidationErrors =>
               /\ snapshot' = CurrentInventory
               /\ inventory_file' = inventory_file
               /\ orders_file' = orders_file
               /\ cart' = cart]_vars

\* A checkout failed on its second line after a first line that is valid,
\* with orders already persisted.
C1_Witness ==
    /\ last.op = "checkout"
    /\ last.outcome = "InsufficientStock"
    /\ Len(cart) = 2
    /\ validate(<< cart[1] >>, 1, CurrentProductsMap, CurrentInventory) = "ok"
    /\ Get(CurrentInventory, cart[1].sku, 0) > 0
    /\ Len(get_orders(orders_file)) > 0

\* C2: every quantity of the inventory dict a committed checkout leaves, and
\* of the persisted inventory, is >= 0.
C2_StockNeverNegative ==
    /\ \A sku \in DOMAIN CurrentInventory : CurrentInventory[sku] >= 0
    /\ (last.op = "checkout" /\ last.outcome = "ok") =>
           \A sku \in DOMAIN snapshot : snapshot[sku] >= 0

\* C3: a checkout that fails, at whatever point, leaves the persisted
\* orders, the persisted inventory and the cart as they were.
C3_FailedCheckoutChangesNothing ==
    [][(last'.op = "checkout" /\ last'.outcome # "ok") =>
         /\ orders_file' = orders_file
         /\ inventory_file' = inventory_file
         /\ cart' = cart]_vars

\* C4: no two orders of the persisted history have the same order_id, and no
\* order_id is given to two orders, whatever get_orders returns.
C4_OrderIdsNeverReused ==
    /\ LET orders == get_orders(orders_file)
       IN  \A i, j \in 1..Len(orders) :
               i # j => orders[i].order_id # orders[j].order_id
    /\ \A i, j \in 1..Len(issued) : i # j => issued[i].order_id # issued[j].order_id

\* The number of checkouts that have returned an order so far.
RECURSIVE completed_count(_, _)
completed_count(log, n) ==
    IF n = 0 THEN 0
    ELSE completed_count(log, n - 1) + (IF log[n].completed THEN 1 ELSE 0)

\* C5: from an empty history, the n-th successful checkout gets "ORD-" and
\* n as 6 digits; a failed checkout consumes no id.
C5_SequentialIds ==
    (last.op = "checkout" /\ last.outcome = "ok") =>
        LET n == completed_count(issued, Len(issued))
        IN  /\ n = 1 => returned.order_id = "ORD-000001"
            /\ n = 2 => returned.order_id = "ORD-000002"
            /\ returned.order_id = "ORD-" \o zero_pad(decimal(n), 6)

IsPrefix(h1, h2) == Len(h1) <= Len(h2) /\ SubSeq(h2, 1, Len(h1)) = h1

\* C6: the persisted history is append-only: a successful checkout appends
\* exactly its order, every record persisted before stays as it was, and a
\* failed checkout leaves the history unchanged.
C6_HistoryAppendOnly ==
    [][/\ IsPrefix(get_orders(orders_file), get_orders(orders_file'))
       /\ last'.op = "checkout" =>
             IF last'.outcome = "ok"
             THEN get_orders(orders_file') = Append(get_orders(orders_file), returned')
             ELSE get_orders(orders_file') = get_orders(orders_file)]_vars

\* The OrderItem checkout builds for cart line it, priced on its own qty.
LineItem(it, membership_tier, clock) ==
    LET product == CurrentProductsMap[it.sku]
        unit_price ==
            round2(price_loop(pricing, Len(pricing), it.sku, product, it.qty, product.price,
                              [keys |-> {"membership"}, membership |-> membership_tier,
                               now |-> 0], clock))
    IN  [sku |-> it.sku, qty |-> it.qty, unit_price |-> unit_price,
         subtotal |-> round2(unit_price * it.qty)]

\* C7: Cart.add appends a new entry and never merges; a successful checkout
\* yields one OrderItem per cart line, in cart order, with the line's sku and
\* qty, its unit price and subtotal computed from the line's own qty, and a
\* total that is the sum of the subtotals.
C7_OneOrderItemPerCartLine ==
    [][/\ (last'.op = "Cart_add" /\ last'.outcome = "ok") =>
             /\ Len(cart') = Len(cart) + 1
             /\ SubSeq(cart', 1, Len(cart)) = cart
       /\ (last'.op = "checkout" /\ last'.outcome = "ok") =>
             /\ Len(returned'.items) = Len(cart)
             /\ \E membership_tier \in Tiers, clock \in Clocks :
                   \A i \in 1..Len(cart) :
                       returned'.items[i] = LineItem(cart[i], membership_tier, clock)
             /\ returned'.total = sum_subtotals(returned'.items, Len(cart))]_vars

\* An order with two lines of one SKU, whose quantities together reach the
\* bulk threshold and separately do not.
C7_Witness ==
    /\ last.op = "checkout"
    /\ last.outcome = "ok"
    /\ Len(returned.items) = 2
    /\ returned.items[1].sku = returned.items[2].sku
    /\ returned.items[1].qty < BulkThreshold
    /\ returned.items[2].qty < BulkThreshold
    /\ returned.items[1].qty + returned.items[2].qty >= BulkThreshold
    /\ returned.total = returned.items[1].subtotal + returned.items[2].subtotal

\* ------------------------------------------------ the pricing engine alone
\* Rules an engine under test is built from: the four standard rules with
\* the application's parameters, and a category rule whose rate is above 1.
RulePool ==
    { CategoryDiscountRule([Dairy |-> 10, Bakery |-> 5]),
      CategoryDiscountRule([Dairy |-> 150]),
      TimeDiscountRule(HappyHourStart, HappyHourEnd, HappyHourRate),
      MembershipDiscountRule(MembershipTable),
      BulkQuantityRule(BulkThreshold, BulkRate) }

TestProducts ==
    { [sku |-> "A", name |-> "Milk", category |-> "Dairy", price |-> 10000, active |-> TRUE],
      [sku |-> "B", name |-> "Soap", category |-> "Household", price |-> 1999, active |-> TRUE] }

TestQtys == {2, 3}

TestBasePrices == {10000, 1999, 125, 0 - 500}

TestContexts ==
    { [keys |-> {}, membership |-> "", now |-> 0],
      [keys |-> {"membership"}, membership |-> "VIP", now |-> 0],
      [keys |-> {"membership", "now"}, membership |-> "SILVER", now |-> HappyHourEnd] }

TestClocks == {HappyHourStart - 1, HappyHourStart}

InitPricing ==
    /\ pricing = << >>
    /\ pi_pc = "idle"
    /\ pi_args = NoArgs
    /\ pi_idx = 0
    /\ pi_price = 0
    /\ pi_inputs = << >>
    /\ pi_raw = << >>
    /\ pi_outputs = << >>
    /\ pi_applied = << >>
    /\ pi_result = 0
    /\ InitStore
    /\ InitCustomers
    /\ InitPromotions
    /\ InitTier
    /\ InitUnits
    /\ InitTills

\* pricing.add_rule(rule), between two calls of price_item.  The frame of a
\* call that has returned is dropped: "done" holds only while the engine is
\* the one the call ran on.
add_rule ==
    /\ pi_pc # "loop"
    /\ Len(pricing) < MaxRules
    /\ \E rule \in RulePool : pricing' = PricingService_add_rule(pricing, rule)
    /\ pi_pc' = "idle"
    /\ UNCHANGED << pi_args, pi_idx, pi_price, pi_inputs, pi_raw, pi_outputs,
                    pi_applied, pi_result, store_vars >>
    /\ UNCHANGED << member_vars, promo_vars, tier_vars, unit_vars, till_vars >>

\* price_item is entered: price = base_unit_price.
price_item_enter ==
    /\ pi_pc # "loop"
    /\ \E product \in TestProducts, qty \in TestQtys, base \in TestBasePrices,
          context \in TestContexts, clock \in TestClocks :
          /\ pi_args' = [sku |-> product.sku, product |-> product, qty |-> qty,
                         base_unit_price |-> base, context |-> context, clock |-> clock]
          /\ pi_price' = base
    /\ pi_pc' = "loop"
    /\ pi_idx' = 1
    /\ pi_inputs' = << >>
    /\ pi_raw' = << >>
    /\ pi_outputs' = << >>
    /\ pi_applied' = << >>
    /\ UNCHANGED << pricing, pi_result, store_vars >>
    /\ UNCHANGED << member_vars, promo_vars, tier_vars, unit_vars, till_vars >>

\* One iteration: price = rule.apply(...); if price < 0: price = 0.0.
price_item_rule ==
    /\ pi_pc = "loop"
    /\ pi_idx <= Len(pricing)
    /\ LET rule == pricing[pi_idx]
           out == apply(rule, pi_args.sku, pi_args.product, pi_args.qty, pi_price,
                        pi_args.context, pi_args.clock)
       IN  /\ pi_inputs' = Append(pi_inputs, pi_price)
           /\ pi_raw' = Append(pi_raw, out)
           /\ pi_applied' = Append(pi_applied,
                  takes_discount(rule, pi_args.product, pi_args.qty, pi_args.context,
                                 pi_args.clock))
           /\ pi_price' = clamp(out)
           /\ pi_outputs' = Append(pi_outputs, clamp(out))
    /\ pi_idx' = pi_idx + 1
    /\ UNCHANGED << pricing, pi_pc, pi_args, pi_result, store_vars >>
    /\ UNCHANGED << member_vars, promo_vars, tier_vars, unit_vars, till_vars >>

\* The loop is over: return round(price, 2).
price_item_return ==
    /\ pi_pc = "loop"
    /\ pi_idx > Len(pricing)
    /\ pi_result' = round2(pi_price)
    /\ pi_pc' = "done"
    /\ UNCHANGED << pricing, pi_args, pi_idx, pi_price, pi_inputs, pi_raw, pi_outputs,
                    pi_applied, store_vars >>
    /\ UNCHANGED << member_vars, promo_vars, tier_vars, unit_vars, till_vars >>

NextPricing == add_rule \/ price_item_enter \/ price_item_rule \/ price_item_return

SpecPricing == InitPricing /\ [][NextPricing]_vars

\* ------------------------------------------------- claims on price_item
PiApply(rule, unit_price) ==
    apply(rule, pi_args.sku, pi_args.product, pi_args.qty, unit_price, pi_args.context,
          pi_args.clock)

\* C8: price_item is the left fold of the rule list in registration order.
\* The i-th call of apply is on the i-th registered rule and receives the
\* price the (i-1)-th iteration left (the base price for the first); no rule
\* is skipped or repeated; the value returned is the rounded fold, so for two
\* rules [A, B] it is B applied to A's output; and add_rule only appends.
C8_FoldInRegistrationOrder ==
    /\ [](pi_pc # "idle" =>
            /\ Len(pi_inputs) = pi_idx - 1
            /\ Len(pi_raw) = Len(pi_inputs)
            /\ Len(pi_outputs) = Len(pi_inputs)
            /\ \A i \in 1..Len(pi_inputs) :
                  /\ pi_inputs[i] = IF i = 1 THEN pi_args.base_unit_price ELSE pi_outputs[i - 1]
                  /\ pi_raw[i] = PiApply(pricing[i], pi_inputs[i]))
    /\ [](pi_pc = "done" =>
            /\ Len(pi_inputs) = Len(pricing)
            /\ pi_result = price_item(pricing, pi_args.sku, pi_args.product, pi_args.qty,
                                      pi_args.base_unit_price, pi_args.context, pi_args.clock)
            /\ Len(pricing) = 2 =>
                  pi_result = round2(clamp(PiApply(pricing[2],
                                  clamp(PiApply(pricing[1], pi_args.base_unit_price))))))
    /\ [][pricing' # pricing =>
            /\ Len(pricing') = Len(pricing) + 1
            /\ SubSeq(pricing', 1, Len(pricing)) = pricing]_vars

\* Two rules whose order matters ran on a price, and the call returned.
C8_Witness ==
    /\ pi_pc = "done"
    /\ Len(pricing) = 2
    /\ pricing[1] # pricing[2]
    /\ pi_applied = << TRUE, TRUE >>
    /\ pi_result # round2(clamp(PiApply(pricing[1],
                         clamp(PiApply(pricing[2], pi_args.base_unit_price)))))

\* C9 as stated: after every rule application, whether the rule applied its
\* discount or passed the price through, the running price is rounded to
\* 2 decimals and is >= 0.
C9_RoundedAfterEveryRule ==
    \A i \in 1..Len(pi_outputs) : IsRounded2(pi_outputs[i]) /\ pi_outputs[i] >= 0

\* C9 amended: after every rule application the running price is >= 0; it
\* is rounded to 2 decimals when the rule applied its discount; a rule that
\* passes the price through leaves it as it received it (clamped), rounded
\* only if it already was.
C9_RoundedWhenDiscountApplied ==
    \A i \in 1..Len(pi_outputs) :
        /\ pi_outputs[i] >= 0
        /\ pi_applied[i] => IsRounded2(pi_outputs[i])
        /\ ~pi_applied[i] => pi_outputs[i] = clamp(pi_inputs[i])

\* A base price with three decimals went through one rule unrounded and was
\* then discounted by the next.
C9_Witness ==
    /\ Len(pi_outputs) = 2
    /\ ~IsRounded2(pi_args.base_unit_price)
    /\ ~pi_applied[1] /\ ~IsRounded2(pi_outputs[1])
    /\ pi_applied[2] /\ pi_outputs[2] > 0

\* C10: a negative rule output is set to 0 before the next rule runs: no
\* rule receives a negative price from a preceding rule, and an engine with
\* at least one rule never returns a negative value.
C10_ClampBeforeNextRule ==
    /\ pi_pc # "idle" => \A i \in 1..Len(pi_outputs) : pi_raw[i] < 0 => pi_outputs[i] = 0
    /\ pi_pc # "idle" => \A i \in 2..Len(pi_inputs) : pi_inputs[i] >= 0
    /\ (pi_pc = "done" /\ Len(pricing) >= 1) => pi_result >= 0

\* A rule returned a negative price, the next rule ran, and the call returned.
C10_Witness ==
    /\ pi_pc = "done"
    /\ Len(pi_raw) = 2
    /\ pi_raw[1] < 0
    /\ pi_inputs[2] = 0

\* --------------------------------------- the engine the application builds
\* price_item called on the engine SupermarketApp.__init__ constructs.
NextDefaultEngine == price_item_enter \/ price_item_rule \/ price_item_return

SpecDefaultEngine == Init /\ [][NextDefaultEngine]_vars

\* The call of the worked example: a Dairy product at 10.00, qty 3, tier VIP,
\* at a time inside the happy hour.
IsWorkedExample ==
    /\ pricing = DefaultRules
    /\ pi_pc # "idle"
    /\ pi_args.product.category = "Dairy"
    /\ pi_args.base_unit_price = 10000
    /\ pi_args.qty = 3
    /\ context_get(pi_args.context, "membership", "REGULAR") = "VIP"
    /\ in_window(pricing[2], pi_args.context, pi_args.clock)

\* C11: on the default rules [Category, Time, Membership, Bulk], base 10.00,
\* qty 3, Dairy, inside the window, VIP: the running price after the rules
\* is 9.00, 8.55, 7.87, 7.48, and price_item returns 7.48.
C11_WorkedExample ==
    IsWorkedExample =>
        /\ \A i \in 1..Len(pi_outputs) : pi_outputs[i] = << 9000, 8550, 7870, 7480 >>[i]
        /\ pi_pc = "done" => (Len(pi_outputs) = 4 /\ pi_result = 7480)

\* The call of the worked example has returned, every rule having applied
\* its discount.
C11_Witness ==
    /\ IsWorkedExample
    /\ pi_pc = "done"
    /\ pi_applied = << TRUE, TRUE, TRUE, TRUE >>
    /\ pi_result = 7480

Abs(x) == IF x < 0 THEN 0 - x ELSE x

\* C12: an engine with no rule returns round(base_unit_price, 2), the
\* multiple of 0.01 nearest to the base price (the even one of two that are
\* as near), whatever the sku, product, qty and context.
C12_NoRuleIdentity ==
    (pi_pc = "done" /\ Len(pricing) = 0) =>
        /\ pi_inputs = << >>
        /\ IsRounded2(pi_result)
        /\ 2 * Abs(pi_result - pi_args.base_unit_price) <= 10
        /\ 2 * Abs(pi_result - pi_args.base_unit_price) = 10 => (pi_result \div 10) % 2 = 0

\* An engine with no rule has priced a base price with three decimals, with
\* a context that has no key.
C12_Witness ==
    /\ pi_pc = "done"
    /\ Len(pricing) = 0
    /\ pi_args.base_unit_price = 1999
    /\ pi_args.context.keys = {}
    /\ pi_result = 2000

\* ------------------------------------------------- more claims on checkout
\* The sum of the subtotals of an order, with no rounding on the way.
RECURSIVE PlainSum(_, _)
PlainSum(its, n) == IF n = 0 THEN 0 ELSE PlainSum(its, n - 1) + its[n].subtotal

\* C13: in every order checkout returns, each item's unit_price is what
\* price_item returns for the line, its subtotal is round(unit_price * qty, 2),
\* and the total is round(sum of the subtotals, 2), rounded once.
C13_SubtotalsAndTotal ==
    [][(last'.op = "checkout" /\ last'.outcome = "ok") =>
         /\ \E membership_tier \in Tiers, clock \in Clocks :
               \A i \in 1..Len(returned'.items) :
                   LET item == returned'.items[i]
                       product == CurrentProductsMap[cart[i].sku]
                   IN  /\ item.unit_price =
                             price_item(pricing, cart[i].sku, product, cart[i].qty,
                                        product.price,
                                        [keys |-> {"membership"},
                                         membership |-> membership_tier, now |-> 0], clock)
                       /\ item.subtotal = round2(item.unit_price * item.qty)
         /\ returned'.total = round2(PlainSum(returned'.items, Len(returned'.items)))]_vars

\* An order of two lines with different unit prices, each below its catalog
\* price, has been returned.
C13_Witness ==
    /\ last.op = "checkout"
    /\ last.outcome = "ok"
    /\ Len(returned.items) = 2
    /\ returned.items[1].unit_price # returned.items[2].unit_price
    /\ \A i \in 1..2 :
          /\ returned.items[i].unit_price < CurrentProductsMap[returned.items[i].sku].price
          /\ returned.items[i].subtotal = returned.items[i].unit_price * returned.items[i].qty
    /\ returned.total = returned.items[1].subtotal + returned.items[2].subtotal

\* C14: the cart is emptied only by a checkout that succeeds, after its
\* save_orders and save_inventory have completed; a failed checkout leaves
\* every cart line in place and in order; no other operation removes lines.
C14_CartClearedOnlyOnSuccess ==
    [][/\ ~IsPrefix(cart, cart') =>
             /\ last'.op = "checkout" /\ last'.outcome = "ok"
             /\ cart' = << >>
             /\ orders_file' = ValidFile("list", Append(get_orders(orders_file), returned'))
             /\ inventory_file' = ValidFile("dict", snapshot')
       /\ (last'.op = "checkout" /\ last'.outcome # "ok") => cart' = cart
       /\ last'.op # "checkout" => IsPrefix(cart, cart')]_vars

\* A checkout of a cart of two lines failed in save_inventory, after
\* save_orders had written its order, and the two lines are still there.
C14_Witness ==
    /\ last.op = "checkout"
    /\ last.outcome = "save_inventory failed"
    /\ Len(cart) = 2
    /\ Len(get_orders(orders_file)) > 0

\* C15: Cart.add with qty <= 0 fails and leaves the cart as it was; with
\* qty > 0 it appends exactly one entry (sku, qty) at the end; so every
\* entry of the cart has qty > 0.
C15_CartAddQuantity ==
    /\ [](\A i \in 1..Len(cart) : cart[i].qty > 0)
    /\ [][last'.op = "Cart_add" =>
             \/ /\ last'.outcome = "InvalidQuantity"
                /\ cart' = cart
             \/ /\ last'.outcome = "ok"
                /\ \E input \in CartInputs :
                      input.qty > 0 /\ cart' = Append(cart, CartItem(input.sku, input.qty))]_vars

\* Cart.add has refused a quantity on a cart that holds a line, which is
\* still there.
C15_Witness ==
    /\ last.op = "Cart_add"
    /\ last.outcome = "InvalidQuantity"
    /\ Len(cart) = 1
    /\ cart[1].qty > 0

\* ---------------------------------------------------- customers and tiers
\* What the operator types as a customer id and as a name ("" is a field
\* left empty, or a prompt that was cancelled).
CustomerIdInputs == {"", "c1", "c2"}

NameInputs == {"", "Ann"}

\* The spend of the customer the store knows at the start.
InitialSpends == {0, 97000, 497000, 997000}

\* customers.json as earlier sessions left it: missing, or holding customer
\* c1 with the tier of its spend.
InitKnownCustomers ==
    /\ customers_file \in
          {MissingFile} \cup
          { ValidFile("list", << [customer_id |-> "c1", name |-> "Ann", lifetime_spend |-> spend,
                                  tier |-> compute_tier(spend)] >>) : spend \in InitialSpends }
    /\ session = NoSession

\* customers.json as it may be found when it was edited by hand: customer c1
\* with any tier.
InitEditedCustomers ==
    /\ customers_file \in
          { ValidFile("list", << [customer_id |-> "c1", name |-> "Ann", lifetime_spend |-> spend,
                                  tier |-> tier] >>) : spend \in InitialSpends, tier \in AllTiers }
    /\ session = NoSession

\* A handler that returns after a message box, having changed nothing.
handler_returns(op, outcome) ==
    /\ last' = [op |-> op, outcome |-> outcome]
    /\ snapshot' = << >>
    /\ returned' = NoOrder
    /\ UNCHANGED << cart, inventory_file, orders_file, issued, customers_file, session >>

\* gui_add_customer.  io is how save_customers ends.
gui_add_customer ==
    /\ \E cust_id \in CustomerIdInputs, name \in NameInputs :
          LET customers == get_customers(customers_file)
          IN  IF cust_id = "" \/ name = ""
              THEN handler_returns("gui_add_customer", "missing field")
              ELSE IF \E i \in 1..Len(customers) : customers[i].customer_id = cust_id
              THEN handler_returns("gui_add_customer", "exists")
              ELSE \E io \in IoOutcomes :
                   /\ customers_file' =
                          write_json(customers_file, "list",
                                     Append(customers, NewCustomer(cust_id, name)), io)
                   /\ last' = [op |-> "gui_add_customer",
                               outcome |-> IF io = "ok" THEN "ok" ELSE "save_customers failed"]
                   /\ snapshot' = << >>
                   /\ returned' = NoOrder
                   /\ UNCHANGED << cart, inventory_file, orders_file, issued, session >>
    /\ UNCHANGED << pricing_vars, products_file, adds, promo_vars, tier_vars, unit_vars,
                    till_vars >>

\* gui_checkout.  name is the answer to the prompt for a new customer; io is
\* how the two saves of checkout end, io_customers how save_customers ends.
gui_checkout ==
    /\ \E customer_id \in CustomerIdInputs, name \in NameInputs :
          LET customers == get_customers(customers_file)
              found == find_customer(customers, customer_id)
              listed == IF found = 0
                        THEN Append(customers, NewCustomer(customer_id, name))
                        ELSE customers
              n == IF found = 0 THEN Len(listed) ELSE found
              current == resolve_tier(listed[n])
              tiered == [listed EXCEPT ![n].tier = current.tier]
          IN  IF customer_id = ""
              THEN handler_returns("gui_checkout", "no customer id")
              ELSE IF cart = << >>
              THEN handler_returns("gui_checkout", "empty cart")
              ELSE IF found = 0 /\ name = ""
              THEN handler_returns("gui_checkout", "cancelled")
              ELSE \E clock \in Clocks, io \in CommitOutcomes :
                   /\ checkout_call(current.tier, clock, io)
                   /\ session' = [customer_id |-> customer_id, current_spend |-> current.spend,
                                  current_tier |-> current.tier]
                   /\ \E io_customers \in IF last'.outcome = "ok" THEN IoOutcomes ELSE {"ok"} :
                          customers_file' =
                              save_after_checkout(customers_file,
                                                  [tiered EXCEPT ![n] =
                                                       after_checkout(tiered[n], current.spend,
                                                                      current.tier,
                                                                      returned'.total)],
                                                  last'.outcome, io_customers)
    /\ UNCHANGED << pricing_vars, products_file, adds, promo_vars, tier_vars, unit_vars,
                    till_vars >>

NextMembers == gui_add_customer \/ gui_checkout

\* The carts the operator has filled when the customer comes to pay: one
\* that the stock covers, and one with a line the stock does not cover.
FilledCarts == { << CartItem("B", 2) >>, << CartItem("A", 2), CartItem("B", 2) >> }

\* The store as InitStore has it, with a filled cart.
InitStoreAtTill ==
    /\ cart \in FilledCarts
    /\ products_file = ValidFile("list", Catalog)
    /\ inventory_file = ValidFile("dict", InitialInventory)
    /\ orders_file = MissingFile
    /\ adds = Len(cart)
    /\ last = [op |-> "none", outcome |-> "ok"]
    /\ snapshot = << >>
    /\ returned = NoOrder
    /\ issued = << >>

InitMembers ==
    InitEngine /\ InitStoreAtTill /\ InitKnownCustomers /\ InitPromotions /\ InitTier
    /\ InitUnits /\ InitTills

SpecMembers == InitMembers /\ [][NextMembers]_vars

InitStoredTier ==
    InitEngine /\ InitStoreAtTill /\ InitEditedCustomers /\ InitPromotions /\ InitTier
    /\ InitUnits /\ InitTills

SpecStoredTier == InitStoredTier /\ [][NextMembers]_vars

\* Every record of the customers the repository returns has the tier of
\* its spend.
TierConsistent(file) ==
    \A i \in 1..Len(get_customers(file)) :
        get_customers(file)[i].tier =
            compute_tier(Get(get_customers(file)[i], "lifetime_spend", 0))

\* C16: after any sequence of registrations and checkouts, successful or
\* failed, every persisted customer record has tier = compute_tier(
\* lifetime_spend); a successful checkout saves the customer with the spend
\* grown by the order total and the tier computed from that spend.
C16_TierFollowsSpend ==
    /\ [](TierConsistent(customers_file))
    /\ [][(/\ last'.op = "checkout" /\ last'.outcome = "ok"
           /\ customers_file'.state = "valid" /\ customers_file' # customers_file) =>
             LET saved == get_customers(customers_file')
                 k == find_customer(saved, session'.customer_id)
             IN  /\ k # 0
                 /\ saved[k].lifetime_spend = session'.current_spend + returned'.total
                 /\ saved[k].tier = compute_tier(saved[k].lifetime_spend)]_vars

\* A checkout has taken its customer into the next tier, and the record is
\* saved with it.
C16_Witness ==
    /\ last.op = "checkout"
    /\ last.outcome = "ok"
    /\ LET saved == get_customers(customers_file)
           k == find_customer(saved, session.customer_id)
       IN  /\ k # 0
           /\ saved[k].lifetime_spend > session.current_spend
           /\ saved[k].tier # session.current_tier

\* C17: the tier gui_checkout passes to checkout is compute_tier of the
\* customer's lifetime_spend before the checkout, whatever the stored tier:
\* with any other stored tier the same tier is passed, and the order has the
\* items and the total that tier gives.
C17_StoredTierIgnored ==
    [][last'.op = "checkout" =>
         LET customers == get_customers(customers_file)
             k == find_customer(customers, session'.customer_id)
             spend == IF k = 0 THEN 0 ELSE Get(customers[k], "lifetime_spend", 0)
         IN  /\ session'.current_tier = compute_tier(spend)
             /\ k # 0 =>
                   \A tier \in AllTiers :
                       resolve_tier([customers[k] EXCEPT !.tier = tier]).tier =
                           session'.current_tier
             /\ last'.outcome = "ok" =>
                   \E clock \in Clocks :
                       /\ returned'.items =
                              order_items(cart, CurrentProductsMap, pricing,
                                          compute_tier(spend), clock)
                       /\ returned'.total = order_total(returned'.items)]_vars

\* A checkout has succeeded for a customer whose stored tier is not the tier
\* of the spend (the record is as it was, save_customers having failed).
C17_Witness ==
    /\ last.op = "checkout"
    /\ last.outcome = "ok"
    /\ returned.total > 0
    /\ LET customers == get_customers(customers_file)
           k == find_customer(customers, session.customer_id)
       IN  /\ k # 0
           /\ customers[k].lifetime_spend = session.current_spend
           /\ customers[k].tier # session.current_tier

\* ------------------------------------------------------ compute_tier alone
\* The spends compute_tier is called with: 0.02 around 0 and around each
\* threshold, in steps of 0.001.
TestSpends == { base + d : base \in {0, 100000, 500000, 1000000}, d \in (0 - 20)..20 }

compute_tier_call ==
    /\ \E lifetime_spend \in TestSpends :
          ct' = [called |-> TRUE, lifetime_spend |-> lifetime_spend,
                 tier |-> compute_tier(lifetime_spend)]
    /\ UNCHANGED << pricing_vars, store_vars, member_vars, promo_vars, unit_vars,
                    till_vars >>

SpecTier == Init /\ [][compute_tier_call]_vars

TierRank(tier) ==
    CASE tier = "REGULAR" -> 0 [] tier = "SILVER" -> 1 [] tier = "GOLD" -> 2 [] tier = "VIP" -> 3

\* C18: compute_tier gives exactly one tier, with closed lower bounds: VIP
\* from 1000, GOLD from 500 to below 1000, SILVER from 100 to below 500,
\* REGULAR below 100 (99.99 REGULAR, 100.00 SILVER, 499.99 SILVER, 500.00
\* GOLD, 999.99 GOLD, 1000.00 VIP); a larger spend never gives a lower tier.
C18_TierBoundaries ==
    /\ [](ct.called =>
            /\ ct.tier \in AllTiers
            /\ ct.tier = "VIP" <=> ct.lifetime_spend >= 1000000
            /\ ct.tier = "GOLD" <=> (500000 <= ct.lifetime_spend /\ ct.lifetime_spend < 1000000)
            /\ ct.tier = "SILVER" <=> (100000 <= ct.lifetime_spend /\ ct.lifetime_spend < 500000)
            /\ ct.tier = "REGULAR" <=> ct.lifetime_spend < 100000
            /\ ct.lifetime_spend = 99990 => ct.tier = "REGULAR"
            /\ ct.lifetime_spend = 100000 => ct.tier = "SILVER"
            /\ ct.lifetime_spend = 499990 => ct.tier = "SILVER"
            /\ ct.lifetime_spend = 500000 => ct.tier = "GOLD"
            /\ ct.lifetime_spend = 999990 => ct.tier = "GOLD"
            /\ ct.lifetime_spend = 1000000 => ct.tier = "VIP")
    /\ [][(ct.called /\ ct.lifetime_spend <= ct'.lifetime_spend) =>
             TierRank(ct.tier) <= TierRank(ct'.tier)]_vars

\* compute_tier has been called on a threshold.
C18_Witness ==
    /\ ct.called
    /\ ct.lifetime_spend = 500000
    /\ ct.tier = "GOLD"

\* ----------------------------------------------------- get_promotions alone
\* Values promotions.json may hold under a key: a well-formed one, a JSON
\* string in the place of the object, and an object that lacks fields.
StoredCategoryDiscounts ==
    { DefaultCategoryDiscounts, CategoryDiscounts([Dairy |-> 20]),
      [json |-> "str", map |-> << >>] }

StoredHappyHours ==
    { DefaultHappyHour,
      HappyHour({"start", "end", "rate"}, << "1", "6", ":", "0", "0" >>,
                << "1", "9", ":", "3", "0" >>, 10),
      [json |-> "str", keys |-> {}, start |-> << >>, end |-> << >>, rate |-> 0],
      HappyHour({"start"}, << "1", "6", ":", "0", "0" >>, << >>, 0) }

StoredBulks ==
    { DefaultBulk, Bulk({"threshold", "rate"}, 2, 10),
      [json |-> "str", keys |-> {}, threshold |-> 0, rate |-> 0],
      Bulk({"rate"}, 0, 10) }

\* The objects promotions.json may hold: any of the three keys present or
\* not (the field of a key that is not present is not looked at).
StoredPromotions ==
    { promo \in [keys : SUBSET PromotionKeys, category_discounts : StoredCategoryDiscounts,
                 happy_hour : StoredHappyHours, bulk : StoredBulks] :
        /\ "category_discounts" \notin promo.keys =>
               promo.category_discounts = DefaultCategoryDiscounts
        /\ "happy_hour" \notin promo.keys => promo.happy_hour = DefaultHappyHour
        /\ "bulk" \notin promo.keys => promo.bulk = DefaultBulk }

\* promotions.json as it may be found: missing, unparsable, holding a list,
\* or holding an object.
InitStoredPromotions ==
    /\ promotions_file \in
          {MissingFile, CorruptFile, ValidFile("list", << >>)} \cup
          { ValidFile("dict", promo) : promo \in StoredPromotions }
    /\ engines = << DefaultRules >>
    /\ app_pricing = 1
    /\ svc_pricing = 1
    /\ promo_read = NotRead

get_promotions_call ==
    /\ promo_read' = [called |-> TRUE, promo |-> get_promotions(promotions_file)]
    /\ UNCHANGED << promotions_file, engines, app_pricing, svc_pricing >>
    /\ UNCHANGED << pricing_vars, store_vars, member_vars, tier_vars, unit_vars, till_vars >>

InitPromoRead ==
    /\ InitEngine /\ InitStore /\ InitCustomers /\ InitStoredPromotions /\ InitTier
    /\ InitUnits /\ InitTills

SpecPromoRead == InitPromoRead /\ [][get_promotions_call]_vars

\* The object promotions.json holds, {} when it holds none.
StoredObject ==
    IF promotions_file.state = "valid" /\ promotions_file.shape = "dict"
    THEN promotions_file.data ELSE EmptyPromotions

MalformedCategoryDiscounts(value) == value.json # "dict"

MalformedHappyHour(value) ==
    \/ value.json # "dict"
    \/ value.keys # {"start", "end", "rate"}
    \/ parse_hh(value.start).error # "ok"
    \/ parse_hh(value.end).error # "ok"

MalformedBulk(value) == value.json # "dict" \/ value.keys # {"threshold", "rate"}

\* C20: get_promotions returns the fixed defaults (happy hour 17:00 to 18:00
\* at 0.05, bulk threshold 3 at 0.05, no category discount) for each part
\* whose stored value is missing or malformed, an entry that is present but
\* of the wrong type or without its fields included.
C20_DefaultsForMalformed ==
    promo_read.called =>
        /\ ("category_discounts" \notin StoredObject.keys
               \/ MalformedCategoryDiscounts(StoredObject.category_discounts)) =>
              promo_read.promo.category_discounts = CategoryDiscounts(<< >>)
        /\ ("happy_hour" \notin StoredObject.keys
               \/ MalformedHappyHour(StoredObject.happy_hour)) =>
              /\ promo_read.promo.happy_hour.json = "dict"
              /\ promo_read.promo.happy_hour.keys = {"start", "end", "rate"}
              /\ parse_hh(promo_read.promo.happy_hour.start) = [error |-> "ok", value |-> 1020]
              /\ parse_hh(promo_read.promo.happy_hour.end) = [error |-> "ok", value |-> 1080]
              /\ promo_read.promo.happy_hour.rate = 5
        /\ ("bulk" \notin StoredObject.keys \/ MalformedBulk(StoredObject.bulk)) =>
              /\ promo_read.promo.bulk.json = "dict"
              /\ promo_read.promo.bulk.keys = {"threshold", "rate"}
              /\ promo_read.promo.bulk.threshold = 3
              /\ promo_read.promo.bulk.rate = 5

\* ----------------------------------------------------- promotions applied
\* What the manager types into the promotions form.
CategoryInputs == {"Household"}

CategoryRateInputs == {NumberText(50), NotANumber}

StartInputs == { DefaultStart, << "5", "p", "m" >> }

EndInputs == {DefaultEnd}

HappyHourRateInputs == {NumberText(5), NotANumber}

BulkThresholdInputs == {NumberText(3), NumberText(2), NotANumber}

BulkRateInputs == {NumberText(5)}

\* A promotions handler ends: the engines and the store are as they were.
promo_handler_ends(op, outcome) ==
    /\ last' = [op |-> op, outcome |-> outcome]
    /\ snapshot' = << >>
    /\ returned' = NoOrder
    /\ UNCHANGED << pricing, engines, app_pricing, svc_pricing >>

\* gui_update_category_discount.  io is how save_promotions ends.
gui_update_category_discount ==
    /\ \E cat_name \in CategoryInputs, rate \in CategoryRateInputs :
          LET promo == get_promotions(promotions_file)
              cat_discounts == promo.category_discounts
          IN  IF ~rate.numeric
              THEN /\ promo_handler_ends("gui_update_category_discount", "bad rate")
                   /\ UNCHANGED promotions_file
              ELSE IF cat_discounts.json # "dict"
              THEN /\ promo_handler_ends("gui_update_category_discount", "TypeError")
                   /\ UNCHANGED promotions_file
              ELSE \E io \in IoOutcomes :
                   /\ promotions_file' =
                          write_json(promotions_file, "dict",
                                     [promo EXCEPT !.category_discounts =
                                          CategoryDiscounts(Put(cat_discounts.map, cat_name,
                                                                rate.value))], io)
                   /\ promo_handler_ends("gui_update_category_discount",
                                         IF io = "ok" THEN "ok" ELSE "save_promotions failed")
    /\ UNCHANGED << pi_pc, pi_args, pi_idx, pi_price, pi_inputs, pi_raw, pi_outputs,
                    pi_applied, pi_result >>
    /\ UNCHANGED << cart, products_file, inventory_file, orders_file, adds, issued >>
    /\ UNCHANGED << promo_read, member_vars, tier_vars, unit_vars, till_vars >>

\* gui_apply_promotions, with the call of _load_pricing_from_promotions that
\* ends it.  io is how save_promotions ends.
gui_apply_promotions ==
    /\ \E start_val \in StartInputs, end_val \in EndInputs, rate_val \in HappyHourRateInputs,
          bulk_thresh \in BulkThresholdInputs, bulk_rate \in BulkRateInputs :
          LET promo == get_promotions(promotions_file)
              edited == [promo EXCEPT
                           !.happy_hour = HappyHour({"start", "end", "rate"}, start_val,
                                                    end_val, rate_val.value),
                           !.bulk = Bulk({"threshold", "rate"}, bulk_thresh.value,
                                         bulk_rate.value)]
          IN  IF ~rate_val.numeric
              THEN /\ promo_handler_ends("gui_apply_promotions", "bad rate")
                   /\ UNCHANGED promotions_file
              ELSE IF ~bulk_thresh.numeric \/ ~bulk_rate.numeric
              THEN /\ promo_handler_ends("gui_apply_promotions", "bad bulk")
                   /\ UNCHANGED promotions_file
              ELSE \E io \in IoOutcomes :
                   /\ promotions_file' = write_json(promotions_file, "dict", edited, io)
                   /\ LET built == build_pricing(get_promotions(promotions_file'))
                          swapped == swap_pricing(engines, app_pricing, built.rules)
                      IN  IF io # "ok"
                          THEN promo_handler_ends("gui_apply_promotions",
                                                  "save_promotions failed")
                          ELSE IF built.error # "ok"
                          THEN promo_handler_ends("gui_apply_promotions", "reload failed")
                          ELSE /\ Len(engines) < MaxEngines
                               /\ engines' = swapped.engines
                               /\ app_pricing' = swapped.app_pricing
                               /\ svc_pricing' = swapped.svc_pricing
                               /\ pricing' = swapped.engines[swapped.svc_pricing]
                               /\ last' = [op |-> "gui_apply_promotions", outcome |-> "ok"]
                               /\ snapshot' = << >>
                               /\ returned' = NoOrder
    /\ UNCHANGED << pi_pc, pi_args, pi_idx, pi_price, pi_inputs, pi_raw, pi_outputs,
                    pi_applied, pi_result >>
    /\ UNCHANGED << cart, products_file, inventory_file, orders_file, adds, issued >>
    /\ UNCHANGED << promo_read, member_vars, tier_vars, unit_vars, till_vars >>

NextPromotions == gui_update_category_discount \/ gui_apply_promotions \/ checkout

InitPromotionsApp ==
    InitEngine /\ InitStoreAtTill /\ InitCustomers /\ InitPromotions /\ InitTier
    /\ InitUnits /\ InitTills

SpecPromotions == InitPromotionsApp /\ [][NextPromotions]_vars

\* The rules gui_apply_promotions would build from the file as it now is.
RulesOnFile == build_pricing(get_promotions(promotions_file)).rules

\* C19: applying a promotion change builds a new PricingService and makes it
\* the one the application and its checkout service refer to; no handler
\* changes the rules of an engine that already exists; and every checkout
\* prices with the engine built last.
C19_NewEngineSwappedIn ==
    /\ [](/\ app_pricing = Len(engines)
          /\ svc_pricing = app_pricing
          /\ pricing = engines[svc_pricing]
          /\ (last.op = "gui_apply_promotions" /\ last.outcome = "ok") =>
                engines[Len(engines)] = RulesOnFile)
    /\ [][/\ Len(engines') >= Len(engines)
          /\ \A i \in 1..Len(engines) : engines'[i] = engines[i]
          /\ (last'.op = "gui_apply_promotions" /\ last'.outcome = "ok") =>
                Len(engines') = Len(engines) + 1
          /\ (last'.op = "checkout" /\ last'.outcome = "ok") =>
                \E membership_tier \in Tiers, clock \in Clocks :
                    returned'.items = order_items(cart, CurrentProductsMap,
                                                  engines[Len(engines)], membership_tier,
                                                  clock)]_vars

\* After a promotion change has been applied, a checkout has returned an
\* order priced differently from what the first engine, still as it was
\* built, would have charged.
C19_Witness ==
    /\ Len(engines) >= 2
    /\ engines[1] = DefaultRules
    /\ engines[Len(engines)] # DefaultRules
    /\ last.op = "checkout"
    /\ last.outcome = "ok"
    /\ \A membership_tier \in Tiers, clock \in Clocks :
          LET old_items == order_items(<< CartItem("B", 2) >>, CurrentProductsMap, engines[1],
                                       membership_tier, clock)
          IN  /\ Len(returned.items) = 1
              /\ returned.items[1].sku = "B"
              /\ returned.items[1].unit_price < old_items[1].unit_price

\* ------------------------------------------------- the repository's getters
Getters == {"get_products", "get_inventory", "get_orders", "get_customers"}

\* What a store file may hold other than a value of its own shape.
BadFiles ==
    {MissingFile, EmptyFile, CorruptFile, UnreadableFile, ValidFile("scalar", << >>)}

StoredProducts ==
    BadFiles \cup {ValidFile("list", Catalog), ValidFile("dict", InitialInventory)}

StoredInventories ==
    BadFiles \cup {ValidFile("dict", InitialInventory), ValidFile("list", Catalog)}

StoredOrders ==
    BadFiles \cup {ValidFile("list", << Order("ORD-000001", 1, << >>, 0) >>),
                   ValidFile("dict", InitialInventory)}

StoredCustomers ==
    BadFiles \cup {ValidFile("list", << NewCustomer("c1", "Ann") >>),
                   ValidFile("dict", InitialInventory)}

InitStoredFiles ==
    /\ cart = << >>
    /\ products_file \in StoredProducts
    /\ inventory_file \in StoredInventories
    /\ orders_file \in StoredOrders
    /\ adds = 0
    /\ last = [op |-> "none", outcome |-> "ok"]
    /\ snapshot = << >>
    /\ returned = NoOrder
    /\ issued = << >>
    /\ customers_file \in StoredCustomers
    /\ session = NoSession

\* The file a getter reads.
file_of(getter) ==
    CASE getter = "get_products" -> products_file
      [] getter = "get_inventory" -> inventory_file
      [] getter = "get_orders" -> orders_file
      [] getter = "get_customers" -> customers_file

\* One call of get_products, get_inventory, get_orders or get_customers.
repository_get ==
    /\ \E getter \in Getters :
          LET raised == read_json_raises(file_of(getter))
              data == IF raised # "none" THEN [shape |-> "none", data |-> << >>]
                      ELSE IF getter = "get_inventory" THEN as_dict(read_json(file_of(getter)))
                      ELSE as_list(read_json(file_of(getter)))
          IN  rd' = [called |-> TRUE, getter |-> getter, raised |-> raised,
                     shape |-> data.shape, data |-> data.data]
    /\ UNCHANGED << pricing_vars, store_vars, member_vars, promo_vars, tier_vars, tr,
                    till_vars >>

InitRepositoryGet ==
    InitEngine /\ InitStoredFiles /\ InitPromotions /\ InitTier /\ InitUnits /\ InitTills

SpecRepositoryGet == InitRepositoryGet /\ [][repository_get]_vars

\* The shape a getter returns.
ShapeOf(getter) == IF getter = "get_inventory" THEN "dict" ELSE "list"

\* The file holds a parsable value of the getter's shape.
WellFormed(file, getter) == file.state = "valid" /\ file.shape = ShapeOf(getter)

\* C21: whatever the store file is (missing, empty, unparsable, unreadable,
\* or parsable but a value of another shape), get_products, get_orders and
\* get_customers return an empty list and get_inventory returns an empty
\* mapping, and none of them raises; a file of the right shape is returned
\* as stored.
C21_GettersDegrade ==
    rd.called =>
        /\ rd.raised = "none"
        /\ rd.shape = ShapeOf(rd.getter)
        /\ ~WellFormed(file_of(rd.getter), rd.getter) => rd.data = << >>
        /\ WellFormed(file_of(rd.getter), rd.getter) => rd.data = file_of(rd.getter).data

\* get_inventory has been called on a file that is missing, unparsable or a
\* list, and has returned an empty mapping.
C21_Witness ==
    /\ rd.called
    /\ rd.getter = "get_inventory"
    /\ inventory_file \in {MissingFile, CorruptFile, ValidFile("list", Catalog)}
    /\ rd.raised = "none"
    /\ rd.shape = "dict"
    /\ rd.data = << >>

\* ------------------------------------------------- TimeDiscountRule alone
\* Windows: happy hour, a single minute, the whole day, and two whose start
\* is after their end (18:00 to 17:00, 22:00 to 02:00).
TestWindows ==
    { << HappyHourStart, HappyHourEnd >>, << HappyHourStart, HappyHourStart >>,
      << 0, 1439 >>, << HappyHourEnd, HappyHourStart >>, << 1320, 120 >> }

\* Times of day: each bound of the windows, the minute before and after it,
\* and times inside the overnight span.
TestNows ==
    {0, 1, 60, 119, 120, 121, HappyHourStart - 1, HappyHourStart, HappyHourStart + 1,
     HappyHourEnd - 1, HappyHourEnd, HappyHourEnd + 1, 1319, 1320, 1380, 1438, 1439}

TestUnitPrice == 10000

\* One call of TimeDiscountRule.apply: the context carries "now", or it does
\* not and datetime.now() is read.
time_rule_apply ==
    /\ \E window \in TestWindows, now \in TestNows, in_context \in BOOLEAN :
          LET rule == TimeDiscountRule(window[1], window[2], HappyHourRate)
              context == IF in_context
                         THEN [keys |-> {"now"}, membership |-> "", now |-> now]
                         ELSE [keys |-> {}, membership |-> "", now |-> 0]
          IN  tr' = [called |-> TRUE, start_time |-> window[1], end_time |-> window[2],
                     now |-> now, in_context |-> in_context, unit_price |-> TestUnitPrice,
                     result |-> TimeDiscountRule_apply(rule, TestUnitPrice, context, now)]
    /\ UNCHANGED << pricing_vars, store_vars, member_vars, promo_vars, tier_vars, rd,
                    till_vars >>

SpecTimeRule == Init /\ [][time_rule_apply]_vars

\* C23: TimeDiscountRule takes its rate off exactly when start_time <= now
\* <= end_time, both bounds included; a window whose start is after its end
\* never applies.
C23_ClosedWindow ==
    tr.called =>
        /\ (tr.start_time <= tr.now /\ tr.now <= tr.end_time) =>
              tr.result = discounted(tr.unit_price, HappyHourRate)
        /\ (tr.now < tr.start_time \/ tr.now > tr.end_time) => tr.result = tr.unit_price
        /\ tr.start_time > tr.end_time => tr.result = tr.unit_price

\* The rule has been applied at the last minute of its window and has taken
\* its rate off.
C23_Witness ==
    /\ tr.called
    /\ tr.start_time < tr.end_time
    /\ tr.now = tr.end_time
    /\ tr.result < tr.unit_price

\* ------------------------------------------------ the deduction of checkout
\* The sum of qty over the lines items[1..n] of a SKU.
RECURSIVE CartQty(_, _, _)
CartQty(items, n, sku) ==
    IF n = 0 THEN 0
    ELSE CartQty(items, n - 1, sku) + (IF items[n].sku = sku THEN items[n].qty ELSE 0)

\* C24: a successful checkout leaves, for every SKU, its quantity before the
\* call less the summed qty of the cart lines of that SKU (so a SKU that is
\* not in the cart keeps its quantity), adds and removes no key, leaves the
\* catalog as it was, and saves exactly the dict it deducted from.
C24_StockDeducted ==
    [][(last'.op = "checkout" /\ last'.outcome = "ok") =>
         LET before == get_inventory(inventory_file)
             after == get_inventory(inventory_file')
         IN  /\ DOMAIN after = DOMAIN before
             /\ \A sku \in DOMAIN before :
                   after[sku] = before[sku] - CartQty(cart, Len(cart), sku)
             /\ products_file' = products_file
             /\ snapshot' = after]_vars

\* A checkout of two lines of product B, 2 each, has succeeded on the stock
\* the session started with: both lines are off the stock of B, and A is as
\* it was.
C24_Witness ==
    /\ last.op = "checkout"
    /\ last.outcome = "ok"
    /\ Len(returned.items) = 2
    /\ \A i \in 1..2 : returned.items[i].sku = "B" /\ returned.items[i].qty = 2
    /\ get_inventory(inventory_file) = snapshot
    /\ snapshot = [A |-> InitialInventory.A, B |-> InitialInventory.B - 4]

\* ------------------------------------------- the engine and the stored config
\* C25: at every checkout the parameters of the rules of the live engine
\* (category table, happy hour start, end and rate, bulk threshold and
\* rate) are those get_promotions returns at that moment: from the start of
\* the application, and after every gui_update_category_discount and
\* gui_apply_promotions.
C25_EngineMatchesConfig ==
    [][(last'.op = "checkout" /\ last'.outcome = "ok") =>
         /\ build_pricing(get_promotions(promotions_file)).error = "ok"
         /\ engines[svc_pricing] = RulesOnFile]_vars

\* The outcomes of a promotions handler that has refused a value: a rate or a
\* threshold float() or int() rejects, or a time parse_hh rejects.
Rejections == {"bad rate", "bad bulk", "reload failed"}

\* C26: a promotion update that is refused because a value cannot be parsed
\* (a rate, the bulk threshold, or a happy hour time that is not HH:MM)
\* leaves promotions.json and the live engine as they were, so that an
\* engine can still be built from promotions.json.
C26_RejectedUpdateChangesNothing ==
    [][(last'.op \in {"gui_apply_promotions", "gui_update_category_discount"}
           /\ last'.outcome \in Rejections) =>
         /\ promotions_file' = promotions_file
         /\ engines' = engines
         /\ app_pricing' = app_pricing
         /\ svc_pricing' = svc_pricing
         /\ build_pricing(get_promotions(promotions_file')).error = "ok"]_vars

\* ------------------------------------------- customers.json after a checkout
\* The customer gui_checkout was last called for is not in customers.json.
NotInStore(customer_id) == find_customer(get_customers(customers_file), customer_id) = 0

\* C27: when gui_checkout is called for a customer id that is not in
\* customers.json and checkout raises, or the prompt for the name is
\* cancelled, customers.json is as it was: the new customer is not saved and
\* no record of another customer has changed.
C27_FailedCheckoutSavesNoCustomer ==
    [][(\/ last'.op = "gui_checkout" /\ last'.outcome = "cancelled"
        \/ /\ last'.op = "checkout"
           /\ last'.outcome # "ok"
           /\ NotInStore(session'.customer_id)) =>
         customers_file' = customers_file]_vars

\* gui_checkout has been called for the new customer c2, checkout has raised,
\* and customers.json holds the one customer it held and not c2.
C27_Witness ==
    /\ last.op = "checkout"
    /\ last.outcome \in {"InsufficientStock", "save_orders failed", "save_inventory failed"}
    /\ session.customer_id = "c2"
    /\ NotInStore("c2")
    /\ Len(get_customers(customers_file)) = 1
    /\ get_customers(customers_file)[1].customer_id = "c1"

\* The sum of lifetime_spend over customers[1..n], and of total over
\* orders[1..n].
RECURSIVE SumSpend(_, _)
SumSpend(customers, n) ==
    IF n = 0 THEN 0 ELSE SumSpend(customers, n - 1) + customers[n].lifetime_spend

RECURSIVE SumTotals(_, _)
SumTotals(orders, n) == IF n = 0 THEN 0 ELSE SumTotals(orders, n - 1) + orders[n].total

StoredSpend == SumSpend(get_customers(customers_file), Len(get_customers(customers_file)))

StoredTotals == SumTotals(get_orders(orders_file), Len(get_orders(orders_file)))

\* The stored record of a customer id, a record of no spend when there is none.
StoredCustomer(file, customer_id) ==
    IF find_customer(get_customers(file), customer_id) = 0
    THEN NewCustomer(customer_id, "")
    ELSE get_customers(file)[find_customer(get_customers(file), customer_id)]

\* C28: a gui_checkout whose checkout returns an order adds exactly the
\* total of that order to the lifetime_spend of its customer and leaves
\* every other customer as stored; so the stored spends and the totals of the
\* stored orders grow by the same amount in every step, and no stored spend
\* and no stored tier ever goes down.
C28_SpendFollowsOrders ==
    [][/\ (last'.op = "checkout" /\ last'.outcome = "ok") =>
             /\ StoredCustomer(customers_file', session'.customer_id).lifetime_spend =
                    StoredCustomer(customers_file, session'.customer_id).lifetime_spend
                        + returned'.total
             /\ \A customer_id \in CustomerIdInputs \ {session'.customer_id} :
                    StoredCustomer(customers_file', customer_id) =
                        StoredCustomer(customers_file, customer_id)
       /\ StoredSpend' - StoredSpend = StoredTotals' - StoredTotals
       /\ \A customer_id \in CustomerIdInputs :
             /\ StoredCustomer(customers_file', customer_id).lifetime_spend >=
                    StoredCustomer(customers_file, customer_id).lifetime_spend
             /\ TierRank(StoredCustomer(customers_file', customer_id).tier) >=
                    TierRank(StoredCustomer(customers_file, customer_id).tier)]_vars

\* ------------------------------------------------- two callers of checkout
\* The carts of the two callers: one or two of product B, whose stock is 2.
TillCarts == { << CartItem("B", 1) >>, << CartItem("B", 2) >> }

InitTwoTills ==
    /\ InitEngine /\ InitStore /\ InitCustomers /\ InitPromotions /\ InitTier /\ InitUnits
    /\ \E cart1 \in TillCarts, cart2 \in TillCarts :
          tills = [t \in Tills |-> [IdleTill EXCEPT !.cart = IF t = 1 THEN cart1 ELSE cart2]]
    /\ serialized \in BOOLEAN

\* The caller is in its call of checkout.
InCall(t) == tills[t].pc \in {"priced", "read", "orders_saved"}

\* The files a step of a caller does not write, and the state of the session
\* of the application, which the callers do not share.
till_frame ==
    UNCHANGED << pricing_vars, cart, products_file, adds, last, snapshot, returned,
                 member_vars, promo_vars, tier_vars, unit_vars, serialized >>

\* The caller reads the catalog and the inventory and calls checkout, which
\* validates, prices and deducts on the dict it was given (lines 15-58).
\* When the callers serialize, a call starts only when no other is running.
till_enter(t) ==
    /\ tills[t].pc = "idle"
    /\ serialized => \A u \in Tills \ {t} : ~InCall(u)
    /\ \E membership_tier \in Tiers, clock \in Clocks :
          LET products_map == products_map_of(get_products(products_file))
              stock == checkout_stock(tills[t].cart, products_map,
                                      get_inventory(inventory_file))
              items == order_items(tills[t].cart, products_map, pricing, membership_tier,
                                   clock)
          IN  tills' = [tills EXCEPT ![t] =
                           IF stock.error # "ok"
                           THEN [@ EXCEPT !.pc = "failed"]
                           ELSE [@ EXCEPT !.pc = "priced", !.inventory = stock.inventory,
                                          !.order = Order("", 0, items, order_total(items))]]
    /\ UNCHANGED << inventory_file, orders_file, issued >>
    /\ till_frame

\* orders = self.repo.get_orders(), and the order built from it (lines
\* 61-68).  created_at is the rank of this reading of datetime.now() among
\* those of the orders built so far.
till_get_orders(t) ==
    /\ tills[t].pc = "priced"
    /\ LET orders == get_orders(orders_file)
           built == Cardinality({u \in Tills : tills[u].order.created_at > 0})
       IN  tills' = [tills EXCEPT ![t] =
                        [@ EXCEPT !.pc = "read", !.orders = orders,
                                  !.order = Order(order_id_for(orders), built + 1, @.items,
                                                  @.total),
                                  !.early = \A u \in Tills : ~tills[u].wrote]]
    /\ UNCHANGED << inventory_file, orders_file, issued >>
    /\ till_frame

\* orders.append and save_orders (lines 70-77).
till_save_orders(t) ==
    /\ tills[t].pc = "read"
    /\ \E io \in IoOutcomes :
          /\ orders_file' = commit_orders(orders_file, tills[t].orders, tills[t].order, io)
          /\ issued' = IF io = "ok"
                       THEN Append(issued, [order_id |-> tills[t].order.order_id,
                                            completed |-> FALSE])
                       ELSE issued
          /\ tills' = [tills EXCEPT ![t].pc = IF io = "ok" THEN "orders_saved" ELSE "failed",
                                    ![t].wrote = TRUE]
    /\ UNCHANGED inventory_file
    /\ till_frame

\* save_inventory, cart.clear and return (lines 78-83).
till_save_inventory(t) ==
    /\ tills[t].pc = "orders_saved"
    /\ \E io \in IoOutcomes :
          /\ inventory_file' = write_json(inventory_file, "dict", tills[t].inventory, io)
          /\ tills' = [tills EXCEPT ![t] =
                           IF io = "ok"
                           THEN [@ EXCEPT !.pc = "done", !.cart = Cart_clear(@)]
                           ELSE [@ EXCEPT !.pc = "failed"]]
    /\ UNCHANGED << orders_file, issued >>
    /\ till_frame

NextTwoTills ==
    \E t \in Tills :
        till_enter(t) \/ till_get_orders(t) \/ till_save_orders(t) \/ till_save_inventory(t)

SpecTwoTills == InitTwoTills /\ [][NextTwoTills]_vars

\* Both calls have returned an order.
BothReturned == \A t \in Tills : tills[t].pc = "done"

\* The history holds the order of this caller.
InHistory(t) ==
    \E i \in 1..Len(get_orders(orders_file)) : get_orders(orders_file)[i] = tills[t].order

\* C22: when two calls of checkout that both return have both read the
\* history before either wrote it, their orders have the same order_id and
\* the history holds one of the two only; when the callers run checkout as a
\* critical section, two calls that return have different order_ids and
\* the history holds both orders.
C22_InterleavedCheckouts ==
    BothReturned =>
        /\ (\A t \in Tills : tills[t].early) =>
              /\ ~serialized
              /\ tills[1].order.order_id = tills[2].order.order_id
              /\ Len(get_orders(orders_file)) = 1
              /\ InHistory(1) # InHistory(2)
        /\ serialized =>
              /\ tills[1].order.order_id # tills[2].order.order_id
              /\ Len(get_orders(orders_file)) = 2
              /\ InHistory(1) /\ InHistory(2)

\* Without serialization both calls have read the empty history, both have
\* returned ORD-000001, and the history holds one order.
C22_Witness ==
    /\ ~serialized
    /\ BothReturned
    /\ \A t \in Tills : tills[t].early /\ tills[t].order.order_id = "ORD-000001"
    /\ tills[1].order # tills[2].order
    /\ Len(get_orders(orders_file)) = 1

====
